---- MODULE Spec2Model ----
(***************************************************************************)
(* HydroHomies: the bottle-scan flow (ScanBottleScreen), the estimators    *)
(* behind it (waterLevelClassifier) and the pet progression it feeds       *)
(* (petEvolution), as a state machine.                                     *)
(*                                                                         *)
(* Conventions.                                                            *)
(*  - A JavaScript value that may be null/undefined is a sequence: << >>   *)
(*    is null/undefined, <<v>> is the value v.                             *)
(*  - Confidences are in percent (0.5 is 50); the raw numbers of a remote  *)
(*    response are in tenths of a millilitre before Math.round.            *)
(*  - The repository holds two revisions of ScanBottleScreen that differ   *)
(*    in handleConfirm, completeHydrationEntry and the skip button:        *)
(*    RevEstimate  (src/unnamed/part_008, no skip button) and              *)
(*    RevConsensus (src/app/context/AuthContext.tsx, with skip button).    *)
(*    The variable rev says which one a behaviour runs.                    *)
(*  - RevConsensus reads the remote result's `consensus` field, written    *)
(*    by a revision of waterLevelClassifier that is not in the sources;    *)
(*    it is modelled by the `estimate` field of the revision that is.      *)
(***************************************************************************)
EXTENDS Integers, Sequences, FiniteSets, TLC

VARIABLES
    rev,                 \* revision of ScanBottleScreen running
    screen,              \* screen on top of the navigation stack
    session,             \* number of the scan session (0: none started yet)
    routeMode,           \* route.params.mode
    routeVolume,         \* route.params.estimatedVolume (optional)
    routeImage,          \* route.params.initialImageUri (optional)
    imageUri,            \* useState imageUri (optional)
    isProcessing,        \* useState isProcessing
    estimatedVolume,     \* useState estimatedVolume (optional)
    bottleType,          \* useState bottleType (optional)
    detectionConfidence, \* useState detectionConfidence (optional)
    captures,            \* images captured so far (their uris are 1..captures)
    procs,               \* processImage invocations in flight
    completions,         \* completeHydrationEntry invocations so far
    fins,                \* completeHydrationEntry invocations in flight
    entries,             \* the hydrationEntries collection, in order of writing
    pet,                 \* the pets/{uid} document (optional)
    alerts,              \* the Alert.alert dialogs raised by the last step
    settled,             \* history: what the processImage run that ended in
                         \* the last step got from its two awaits (optional)
    call,                \* the last call of a function made on its own, or
                         \* the last operation on the pet document
    result,              \* what that call returned or threw, or showed
    now,                 \* the time, in ticks (TicksPerHour of them an hour)
    model,               \* waterLevelClassifier's `model`: "null" or "loaded"
    isModelLoading,      \* waterLevelClassifier's `isModelLoading`
    modelLoadError,      \* waterLevelClassifier's `modelLoadError` (optional)
    callers              \* where each caller of loadMLModel stands

\* the state of the scan flow
scanVars == << rev, screen, session, routeMode, routeVolume, routeImage,
               imageUri, isProcessing, estimatedVolume, bottleType,
               detectionConfidence, captures, procs, completions, fins,
               entries, pet, alerts, settled >>

\* the state of the function calls
callVars == << call, result >>

\* the module state of waterLevelClassifier.ts and the callers of loadMLModel
modelVars == << model, isModelLoading, modelLoadError, callers >>

vars == << scanVars, callVars, now, modelVars >>

----------------------------------------------------------------------------
(* Bounds of the model *)

MaxSessions == 1
MaxCaptures == 2
MaxFinalizations == 2
MaxFeeds == 3
MaxTime == 4
TicksPerHour == 2
MaxCallExperience == 2100
MaxCallers == 3

(* Program constants *)

ConfidenceThreshold == 50
SimulatedVerificationConfidence == 80
SimulatedInitialConfidence == 60
DefaultBottleVolume == 500
SimulatedBottleVolume == 1000
FallbackVolume == 500
FallbackConfidence == 30
ExperiencePer100Ml == 10
MaxExperience == 2000
MaxLevel == 100
FullHealth == 100
HealthDecayPerHour == 1
LastFedHealth == 100
DailyWaterGoal == 1500

RevEstimate == "estimate"
RevConsensus == "consensus"

----------------------------------------------------------------------------
(* JavaScript helpers *)

Null == << >>
Some(v) == << v >>

\* JavaScript truthiness of an optional number: null, undefined and 0 are falsy
Truthy(x) == x # Null /\ x[1] # 0

\* x || d for an optional number x and a number d
OrElse(x, d) == IF Truthy(x) THEN x[1] ELSE d

\* x || null
OrNull(x) == IF Truthy(x) THEN x ELSE Null

\* x ?? y on optionals
Coalesce(x, y) == IF x # Null THEN x ELSE y

\* How a call ends: it throws (a promise rejects), or it returns v
Thrown == [ threw |-> TRUE, value |-> << >> ]
Returned(v) == [ threw |-> FALSE, value |-> << v >> ]

\* no function has been called on its own yet
NoCall == [ fn |-> "none" ]

Min(a, b) == IF a < b THEN a ELSE b
Max(a, b) == IF a > b THEN a ELSE b

\* Math.round of a number given in tenths: the nearest integer, halves go up
MathRoundTenths(t) == (t + 5) \div 10

\* Math.round(bottleVolume * percent / 100)
RoundPercentOf(bottleVolume, percent) == (bottleVolume * percent + 50) \div 100

----------------------------------------------------------------------------
(* waterLevelClassifier.ts *)

CLASSES == << "half", "full", "overflowing" >>

ClassSet == { CLASSES[i] : i \in 1..Len(CLASSES) }

WaterLevels == { "empty", "low", "half", "full", "overflowing" }

\* calculateVolumeFromLevel
CalculateVolumeFromLevel(level, bottleVolume) ==
    CASE level = "empty" -> 0
      [] level = "low" -> RoundPercentOf(bottleVolume, 25)
      [] level = "half" -> RoundPercentOf(bottleVolume, 50)
      [] level = "full" -> bottleVolume
      [] level = "overflowing" -> RoundPercentOf(bottleVolume, 120)
      [] OTHER -> RoundPercentOf(bottleVolume, 50)

\* detectWaterLevelSimulated: the results it can return
DetectWaterLevelSimulated(isVerification) ==
    IF isVerification
    THEN { [waterLevel |-> "empty", confidence |-> SimulatedVerificationConfidence] }
    ELSE { [waterLevel |-> l, confidence |-> SimulatedInitialConfidence] :
             l \in ClassSet \cup {"empty", "low"} }

\* `model`: null until loadMLModel has succeeded (it never does in Expo Go),
\* and null again after unloadMLModel; a capture may find it either way
ModelStates == { "null", "loaded" }

\* top-class probability the trained model is taken to report (below the
\* 0.5 of the low-confidence check; the simulated detections are above it)
ModelConfidences == { 40 }

\* detectWaterLevelWithModel: the results it can return when it does not throw
DetectWaterLevelWithModel ==
    { [waterLevel |-> l, confidence |-> c] : l \in ClassSet, c \in ModelConfidences }

Detection(name, volume, r) ==
    [ bottleType |-> name,
      waterLevel |-> r.waterLevel,
      estimatedVolume |-> CalculateVolumeFromLevel(r.waterLevel, volume),
      confidence |-> r.confidence ]

\* detectWaterLevelWithModel: how it can end. Without a model it throws;
\* with one, inference returns a result or throws.
InferenceOutcomes(m) ==
    IF m = "null" THEN { Thrown }
    ELSE { Thrown } \cup { Returned(r) : r \in DetectWaterLevelWithModel }

\* detectBottleAndLevel's final fallback, returned from its outer catch
FallbackDetection(isVerification) ==
    [ bottleType |-> "Unknown Bottle",
      waterLevel |-> IF isVerification THEN "empty" ELSE "full",
      estimatedVolume |-> IF isVerification THEN 0 ELSE FallbackVolume,
      confidence |-> FallbackConfidence ]

\* Variant of DetectBottleAndLevelResult whose inner try has no catch: a
\* failed inference goes to the outer catch
DetectBottleAndLevelResultNoInnerCatch(m, inference, simulated, fault, isVerification) ==
    IF m # "null" /\ ~inference.threw
    THEN Returned(Detection("Unknown Bottle", DefaultBottleVolume, inference.value[1]))
    ELSE IF m # "null" \/ fault
         THEN Returned(FallbackDetection(isVerification))
         ELSE Returned(Detection("SmartWater 1L", SimulatedBottleVolume, simulated))

\* detectBottleAndLevel, with what it meets on its way: the model state m,
\* how detectWaterLevelWithModel ends (inference), what
\* detectWaterLevelSimulated draws (simulated), and whether the runtime
\* raises in the simulated path (fault; no statement there throws by itself).
\* The inner catch falls through to the simulated path, the outer catch
\* returns the final fallback.
DetectBottleAndLevelResult(m, inference, simulated, fault, isVerification) ==
    LET inner == IF m # "null" /\ ~inference.threw
                 THEN Returned(Detection("Unknown Bottle", DefaultBottleVolume,
                                         inference.value[1]))
                 ELSE Thrown
        body == IF ~inner.threw THEN inner
                ELSE IF fault THEN Thrown
                ELSE Returned(Detection("SmartWater 1L", SimulatedBottleVolume,
                                        simulated))
    IN  IF body.threw THEN Returned(FallbackDetection(isVerification)) ELSE body

\* detectBottleAndLevel in the scan flow (no runtime fault): the detections
\* it can resolve with
DetectBottleAndLevel(m, isVerification) ==
    { DetectBottleAndLevelResult(m, inference, simulated, FALSE,
                                 isVerification).value[1] :
        inference \in InferenceOutcomes(m),
        simulated \in DetectWaterLevelSimulated(isVerification) }

\* What the remote endpoint can answer: a JSON object with the three numbers
\* (volumes in tenths of a millilitre, confidence in percent, neither
\* validated for range), or anything that makes callOpenRouterAPI throw
\* (network error, non-2xx status, no content, malformed JSON, a field that
\* is not a number).
Response(b, w, c) ==
    [ ok |-> TRUE, bottleVolume |-> b, waterVolume |-> w, confidence |-> c ]

Failure == [ ok |-> FALSE, bottleVolume |-> 0, waterVolume |-> 0, confidence |-> 0 ]

RemoteResponses ==
    { Failure,
      Response(5000, 3305, 120),   \* 330.5 ml, confidence above 1
      Response(0, -1000, 60),      \* negative volume, no bottle volume
      Response(5000, 0, 60),       \* no water seen
      Response(5000, 3305, 50),    \* confidence exactly 0.5
      Response(5000, 3305, 30) }   \* low confidence

\* callOpenRouterAPI, the estimate built from a well-formed response
CallOpenRouterAPI(resp) ==
    [ bottleVolume |-> MathRoundTenths(resp.bottleVolume),
      waterVolume |-> MathRoundTenths(resp.waterVolume),
      confidence |-> Max(0, Min(100, resp.confidence)) ]

\* getTribunalEstimate: << >> when it throws, else the TribunalResult's estimate
GetTribunalEstimate(resp) ==
    IF resp.ok THEN Some(CallOpenRouterAPI(resp)) ELSE Null

\* ---- loadMLModel and unloadMLModel ----

\* A caller is idle (no call made), loading (past `isModelLoading = true`,
\* at one of the awaits of the try block), waiting (in the polling loop), or
\* its last call has resolved or rejected.
CallerStates == { "idle", "loading", "waiting", "resolved", "rejected" }

\* loadMLModel up to its first await: already loaded returns, a load in
\* progress is waited for, else the caller starts the load
LoadMLModel(c) ==
    /\ callers[c] \in { "idle", "resolved", "rejected" }
    /\ IF model # "null"
       THEN /\ callers' = [callers EXCEPT ![c] = "resolved"]
            /\ UNCHANGED << model, isModelLoading, modelLoadError >>
       ELSE IF isModelLoading
            THEN /\ callers' = [callers EXCEPT ![c] = "waiting"]
                 /\ UNCHANGED << model, isModelLoading, modelLoadError >>
            ELSE /\ isModelLoading' = TRUE
                 /\ modelLoadError' = Null
                 /\ callers' = [callers EXCEPT ![c] = "loading"]
                 /\ UNCHANGED model
    /\ UNCHANGED << scanVars, callVars, now >>

\* the load of caller c ends: the model is assigned, or the catch block sets
\* modelLoadError and model = null and returns; finally isModelLoading = false
LoadSettles(c) ==
    /\ callers[c] = "loading"
    /\ \/ /\ model' = "loaded"
          /\ UNCHANGED modelLoadError
       \/ /\ model' = "null"
          /\ modelLoadError' = Some("Model loading failed")
    /\ isModelLoading' = FALSE
    /\ callers' = [callers EXCEPT ![c] = "resolved"]
    /\ UNCHANGED << scanVars, callVars, now >>

\* after the polling loop: `if (model === null && modelLoadError) throw
\* modelLoadError`, else return
WaiterOutcome(loaded, loadError) ==
    IF loaded = "null" /\ loadError # Null THEN "rejected" ELSE "resolved"

\* a waiting caller's timer fires with isModelLoading false
WaiterWakes(c) ==
    /\ callers[c] = "waiting"
    /\ ~isModelLoading
    /\ callers' = [callers EXCEPT ![c] = WaiterOutcome(model, modelLoadError)]
    /\ UNCHANGED << model, isModelLoading, modelLoadError >>
    /\ UNCHANGED << scanVars, callVars, now >>

\* unloadMLModel: dispose and `model = null` when a model is loaded
UnloadMLModel ==
    /\ model' = "null"
    /\ UNCHANGED << isModelLoading, modelLoadError, callers >>
    /\ UNCHANGED << scanVars, callVars, now >>

\* ---- callOpenRouterAPI from the response body to the estimate ----

\* the values a field of the parsed object can have: absent, a string, a
\* number (volumes in tenths of a ml, confidence in percent), or Infinity,
\* which JSON.parse gives for a literal beyond the double range (1e999)
Absent == [ type |-> "undefined", finite |-> TRUE, value |-> 0 ]
JsonString == [ type |-> "string", finite |-> TRUE, value |-> 0 ]
JsonNumber(n) == [ type |-> "number", finite |-> TRUE, value |-> n ]
JsonInfinity == [ type |-> "number", finite |-> FALSE, value |-> 0 ]

VolumeFields == { Absent, JsonString, JsonNumber(3305), JsonNumber(0 - 1000), JsonInfinity }

ConfidenceFields ==
    { Absent, JsonString, JsonNumber(120), JsonNumber(0 - 10), JsonNumber(60),
      JsonInfinity }

JsonObjects ==
    [ bottleVolume : VolumeFields, waterVolume : VolumeFields,
      confidence : ConfidenceFields ]

\* the message content as a sequence of pieces: an opening fence with its
\* language tag, a bare fence, a line break, any other text, or the text of
\* a JSON object
FenceJson == [ kind |-> "fenceJson" ]
Fence == [ kind |-> "fence" ]
LineBreak == [ kind |-> "lineBreak" ]
Prose == [ kind |-> "prose" ]
ObjectText(object) == [ kind |-> "object", object |-> object ]

\* the contents a response can carry for an object: bare, fenced with and
\* without the language tag, preceded by a sentence, or no object at all
ContentsOf(object) ==
    { << ObjectText(object) >>,
      << FenceJson, LineBreak, ObjectText(object), LineBreak, Fence >>,
      << Fence, ObjectText(object), Fence >>,
      << Prose, LineBreak, FenceJson, LineBreak, ObjectText(object), LineBreak, Fence >> }

\* `.replace(/```json\n?/g, "").replace(/```\n?/g, "")`: every fence goes,
\* with the line break that follows it
RECURSIVE StripCodeFences(_)
StripCodeFences(content) ==
    IF content = << >> THEN << >>
    ELSE IF content[1].kind \in { "fenceJson", "fence" }
         THEN IF Len(content) > 1 /\ content[2].kind = "lineBreak"
              THEN StripCodeFences(SubSeq(content, 3, Len(content)))
              ELSE StripCodeFences(Tail(content))
         ELSE << content[1] >> \o StripCodeFences(Tail(content))

\* JSON.parse: the object when the text is one JSON object with white space
\* around it, Null when it throws
JsonParse(text) ==
    LET pieces == SelectSeq(text, LAMBDA piece : piece.kind # "lineBreak")
    IN  IF Len(pieces) = 1 /\ pieces[1].kind = "object"
        THEN Some(pieces[1].object) ELSE Null

\* Math.round of a parsed number: Infinity stays Infinity
MathRoundJson(field) ==
    IF field.finite THEN JsonNumber(MathRoundTenths(field.value)) ELSE JsonInfinity

\* Math.max(0, Math.min(1, confidence)), in percent
ClampConfidence(field) ==
    IF field.finite THEN Max(0, Min(100, field.value)) ELSE 100

\* callOpenRouterAPI from `data.choices?.[0]?.message?.content` on: no
\* content throws, the fences are stripped, JSON.parse may throw, a field
\* that is not a number throws, else the estimate
ParseEstimate(content) ==
    IF content = << >> THEN Thrown
    ELSE LET parsed == JsonParse(StripCodeFences(content))
         IN  IF parsed = Null THEN Thrown
             ELSE LET estimate == parsed[1]
                  IN  IF \/ estimate.bottleVolume.type # "number"
                         \/ estimate.waterVolume.type # "number"
                         \/ estimate.confidence.type # "number"
                      THEN Thrown
                      ELSE Returned(
                             [ bottleVolume |-> MathRoundJson(estimate.bottleVolume),
                               waterVolume |-> MathRoundJson(estimate.waterVolume),
                               confidence |-> ClampConfidence(estimate.confidence) ])

----------------------------------------------------------------------------
(* petEvolution.ts *)

\* Variant of CalculatePetType with exclusive thresholds
CalculatePetTypeAbove(experience) ==
    IF experience > 1500 THEN "fish"
    ELSE IF experience > 1000 THEN "droplet"
    ELSE IF experience > 600 THEN "flower"
    ELSE IF experience > 300 THEN "plant"
    ELSE IF experience > 100 THEN "sprout"
    ELSE "seed"

\* calculatePetType
CalculatePetType(experience) ==
    IF experience >= 1500 THEN "fish"
    ELSE IF experience >= 1000 THEN "droplet"
    ELSE IF experience >= 600 THEN "flower"
    ELSE IF experience >= 300 THEN "plant"
    ELSE IF experience >= 100 THEN "sprout"
    ELSE "seed"

\* Experiences e for which the IEEE-754 value of (e / 2000) * 100 lies just
\* under k + 0.5 although e / 20 is exactly k + 0.5, so Math.round goes down.
RoundsDownInFloat == { -2490, -2470, -2450, -2430, -1110, -1090, -550, -70,
                       290, 570, 1130, 1150 }

\* calculatePetLevel
CalculatePetLevel(experience) ==
    LET exact == (experience * MaxLevel + (MaxExperience \div 2)) \div MaxExperience
        rounded == IF experience \in RoundsDownInFloat THEN exact - 1 ELSE exact
    IN  Min(MaxLevel, rounded)

\* addHydrationExperience: Math.floor((waterAmountMl / 100) * 10)
AddHydrationExperience(currentExperience, waterAmountMl) ==
    currentExperience + ((waterAmountMl * ExperiencePer100Ml) \div 100)

\* Variant of UpdatePetAfterHydration that leaves the type as it was
UpdatePetAfterHydrationKeepsType(currentPet, waterAmountMl) ==
    LET newExperience == AddHydrationExperience(currentPet.experience, waterAmountMl)
    IN  [ experience |-> newExperience,
          type |-> currentPet.type,
          level |-> CalculatePetLevel(newExperience),
          health |-> FullHealth ]

\* updatePetAfterHydration
UpdatePetAfterHydration(currentPet, waterAmountMl) ==
    LET newExperience == AddHydrationExperience(currentPet.experience, waterAmountMl)
    IN  [ experience |-> newExperience,
          type |-> CalculatePetType(newExperience),
          level |-> CalculatePetLevel(newExperience),
          health |-> FullHealth ]

\* databaseService.initializePet
\* Variant of UpdatePet that never writes lastFed
UpdatePetKeepsLastFed(stored, updates) ==
    [ k \in DOMAIN stored |->
        IF k \in DOMAIN updates THEN updates[k] ELSE stored[k] ]

\* databaseService.updatePet: updateDoc merges the updates into the stored
\* document, with lastFed: serverTimestamp() when updates.health is 100
UpdatePet(stored, updates) ==
    [ k \in DOMAIN stored |->
        IF k = "lastFed" /\ "health" \in DOMAIN updates
                        /\ updates.health = LastFedHealth
        THEN now
        ELSE IF k \in DOMAIN updates THEN updates[k] ELSE stored[k] ]

\* Variant of CalculatePetHealth without the Math.max
CalculatePetHealthUnclamped(lastFed, currentHealth, time) ==
    currentHealth - (((time - lastFed) * HealthDecayPerHour) \div TicksPerHour)

\* calculatePetHealth, with Date.now() given as `time`; Math.floor of the
\* hours elapsed, which are negative for a lastFed in the future
CalculatePetHealth(lastFed, currentHealth, time) ==
    LET healthLoss == ((time - lastFed) * HealthDecayPerHour) \div TicksPerHour
    IN  Max(0, currentHealth - healthLoss)

\* databaseService.initializePet at time 0
InitialPet ==
    [ experience |-> 0, type |-> "seed", level |-> 0, health |-> FullHealth,
      lastFed |-> 0 ]

----------------------------------------------------------------------------
(* ScanBottleScreen: processImage *)

\* Variant of UseTribunal with the threshold included (>= 0.5)
UseTribunalFromThreshold(tribunal) ==
    tribunal # Null /\ tribunal[1].confidence >= ConfidenceThreshold

\* `tribunalEstimate && tribunalEstimate.estimate.confidence > 0.5`; tribunal
\* is << >> when getTribunalEstimate threw (tribunalEstimate stays null)
UseTribunal(tribunal) ==
    tribunal # Null /\ tribunal[1].confidence > ConfidenceThreshold

\* the argument of setEstimatedVolume
FusedVolume(detection, tribunal) ==
    IF UseTribunal(tribunal) THEN tribunal[1].waterVolume
    ELSE detection.estimatedVolume

\* the argument of setDetectionConfidence
FusedConfidence(detection, tribunal) ==
    IF UseTribunal(tribunal) THEN tribunal[1].confidence
    ELSE detection.confidence

\* A bottle-type label is a pair: its text and the volume interpolated into
\* it (`Bottle (${bottleVolume}ml)`), 0 when the label has none.
Label(text, ml) == << text, ml >>

\* Variant of FusedBottleType whose fallback makes no setBottleType call when
\* getTribunalEstimate threw
FusedBottleTypeKeptOnFailure(detection, tribunal, current) ==
    IF tribunal = Null THEN current
    ELSE IF UseTribunal(tribunal)
         THEN IF tribunal[1].bottleVolume > 0
              THEN Some(Label("Bottle", tribunal[1].bottleVolume))
              ELSE current
         ELSE Some(Label(detection.bottleType, 0))

\* the bottleType state after the setBottleType calls (none is made when the
\* tribunal wins with bottleVolume <= 0)
FusedBottleType(detection, tribunal, current) ==
    IF UseTribunal(tribunal)
    THEN IF tribunal[1].bottleVolume > 0
         THEN Some(Label("Bottle", tribunal[1].bottleVolume))
         ELSE current
    ELSE Some(Label(detection.bottleType, 0))

\* finalConfidence = tribunalEstimate?.estimate.confidence || detection.confidence
FinalConfidence(detection, tribunal) ==
    IF tribunal # Null /\ tribunal[1].confidence # 0
    THEN tribunal[1].confidence
    ELSE detection.confidence

\* `if (finalConfidence < 0.5) Alert.alert("Low Confidence", ...)`
LowConfidenceAlert(detection, tribunal) ==
    IF FinalConfidence(detection, tribunal) < ConfidenceThreshold
    THEN { "Low Confidence" }
    ELSE { }

IsVerification == routeMode = "verification"

\* the state of the mounted screen other than isProcessing
screenState == << routeMode, routeVolume, routeImage, imageUri, estimatedVolume,
                  bottleType, detectionConfidence, procs >>

\* what `await detectBottleAndLevel(uri, isVerification)` can give
Detections(isVerification) ==
    UNION { DetectBottleAndLevel(m, isVerification) : m \in ModelStates }

\* processImage up to its first await: setIsProcessing(true), then
\* detectBottleAndLevel(uri, isVerification) is pending
StartProcessImage(uri) ==
    /\ isProcessing' = TRUE
    /\ procs' = procs \cup { [ uri |-> uri, isVerification |-> IsVerification ] }

\* handleTakePicture: reachable from the "Take Photo" button, which is
\* rendered while imageUri is null. takePictureAsync may throw.
HandleTakePicture ==
    /\ screen = "ScanBottle"
    /\ imageUri = Null
    /\ captures < MaxCaptures
    /\ \/ /\ captures' = captures + 1
          /\ imageUri' = Some(captures + 1)
          /\ StartProcessImage(captures + 1)
          /\ alerts' = { }
       \/ /\ alerts' = { "Error: take picture" }
          /\ UNCHANGED << captures, imageUri, isProcessing, procs >>
    /\ UNCHANGED << rev, screen, session, routeMode, routeVolume,
                    routeImage, estimatedVolume, bottleType,
                    detectionConfidence, completions, fins, entries, pet >>
    /\ settled' = Null
    /\ UNCHANGED << callVars, now, modelVars >>

\* handlePickImage: the "Choose from Gallery" button; a cancelled picker
\* changes nothing
HandlePickImage ==
    /\ screen = "ScanBottle"
    /\ imageUri = Null
    /\ captures < MaxCaptures
    /\ captures' = captures + 1
    /\ imageUri' = Some(captures + 1)
    /\ StartProcessImage(captures + 1)
    /\ alerts' = { }
    /\ UNCHANGED << rev, screen, session, routeMode, routeVolume,
                    routeImage, estimatedVolume, bottleType,
                    detectionConfidence, completions, fins, entries, pet >>
    /\ settled' = Null
    /\ UNCHANGED << callVars, now, modelVars >>

\* processImage from its awaits to its end, for invocation p, with
\* detectBottleAndLevel resolving to `detection` (it never rejects) and the
\* remote endpoint answering `resp`: the state setters, the low-confidence
\* alert, and finally setIsProcessing(false). No state is set between the two
\* awaits.
ProcessImageSets(p, detection, resp) ==
    LET tribunal == GetTribunalEstimate(resp)
    IN  /\ estimatedVolume' = Some(FusedVolume(detection, tribunal))
        /\ detectionConfidence' = Some(FusedConfidence(detection, tribunal))
        /\ bottleType' = FusedBottleType(detection, tribunal, bottleType)
        /\ alerts' = LowConfidenceAlert(detection, tribunal)
        /\ isProcessing' = FALSE
        /\ procs' = procs \ {p}
        /\ settled' = Some([ detection |-> detection, tribunal |-> tribunal ])
        /\ UNCHANGED << rev, screen, session, routeMode, routeVolume,
                        routeImage, imageUri, captures, completions, fins,
                        entries, pet >>

ProcessImageWith(p, detection, resp) ==
    /\ ProcessImageSets(p, detection, resp)
    /\ UNCHANGED << callVars, now, modelVars >>

ProcessImageSettles ==
    \E p \in procs :
        \E detection \in Detections(p.isVerification), resp \in RemoteResponses :
            ProcessImageWith(p, detection, resp)

\* processImage's first await ends: detectBottleAndLevel has resolved for
\* invocation p and `await getTribunalEstimate(uri)` is pending; `call` holds
\* the pending request
DetectionResolves ==
    /\ call = NoCall
    /\ \E p \in procs :
         \E detection \in Detections(p.isVerification) :
            call' = [ fn |-> "getTribunalEstimate", proc |-> p,
                      detection |-> detection ]
    /\ UNCHANGED << scanVars, result, now, modelVars >>

\* the remote endpoint answers (or the fetch fails) and processImage runs to
\* its end. fetch is called without a timeout or an abort signal, so nothing
\* in the program makes this step happen.
TribunalResponds ==
    /\ call.fn = "getTribunalEstimate"
    /\ \E resp \in RemoteResponses :
         ProcessImageSets(call.proc, call.detection, resp)
    /\ call' = NoCall
    /\ UNCHANGED << result, now, modelVars >>

\* the Retake button, rendered whenever imageUri is set
Retake ==
    /\ screen = "ScanBottle"
    /\ imageUri # Null
    /\ imageUri' = Null
    /\ estimatedVolume' = Null
    /\ bottleType' = Null
    /\ detectionConfidence' = Null
    /\ alerts' = { }
    /\ UNCHANGED << rev, screen, session, routeMode, routeVolume,
                    routeImage, isProcessing, captures, procs, completions,
                    fins, entries, pet >>
    /\ settled' = Null
    /\ UNCHANGED << callVars, now, modelVars >>

----------------------------------------------------------------------------
(* ScanBottleScreen: handleConfirm, completeHydrationEntry, skip *)

\* The "Confirm Empty" / "Confirm & Verify" button: rendered in the imageUri
\* branch when `estimatedVolume &&` is truthy, disabled while isProcessing
ConfirmButton ==
    /\ screen = "ScanBottle"
    /\ imageUri # Null
    /\ Truthy(estimatedVolume)
    /\ ~isProcessing

\* The "Skip Verification" button: RevConsensus only, rendered in the
\* imageUri branch when isVerification; it is never disabled
SkipButton ==
    /\ rev = RevConsensus
    /\ screen = "ScanBottle"
    /\ imageUri # Null
    /\ IsVerification

\* handleConfirm's early return with the "Could not detect water volume" alert
ConfirmRejects(isVerification, volume) ==
    IF rev = RevEstimate
    THEN ~isVerification /\ (volume = Null \/ volume[1] = 0)
    ELSE ~Truthy(volume)

\* Variant of VolumeToLog that logs the volume on display, whatever the mode
VolumeToLogDisplayed(isVerification, routeVol, stateVol) ==
    Coalesce(Coalesce(stateVol, routeVol), Some(0))[1]

\* RevEstimate: overrideVolume ?? (isVerification ? route.params?.estimatedVolume
\* : estimatedVolume) ?? route.params?.estimatedVolume ?? 0, no caller passing
\* an overrideVolume
VolumeToLog(isVerification, routeVol, stateVol) ==
    Coalesce(Coalesce(IF isVerification THEN routeVol ELSE stateVol, routeVol),
             Some(0))[1]

\* RevConsensus: `estimatedVolume || 0`
StateVolumeOrZero(stateVol) == OrElse(stateVol, 0)

\* the amount a completeHydrationEntry invocation works with
AmountToLog(isVerification, routeVol, stateVol) ==
    IF rev = RevEstimate
    THEN VolumeToLog(isVerification, routeVol, stateVol)
    ELSE StateVolumeOrZero(stateVol)

\* the `verified` field completeHydrationEntry writes, whoever called it
VerifiedFlag(by) == TRUE

\* completeHydrationEntry up to its first await: setIsProcessing(true). The
\* invocation works on the values of the render it was created in.
StartComplete(by) ==
    /\ completions < MaxFinalizations
    /\ completions' = completions + 1
    /\ isProcessing' = TRUE
    /\ fins' = fins \cup
         { [ session |-> session, by |-> by, pc |-> "write", nth |-> completions + 1,
             volume |-> AmountToLog(IsVerification, routeVolume, estimatedVolume),
             petRead |-> Null ] }
    /\ alerts' = { }
    /\ UNCHANGED << routeMode, routeVolume, routeImage >>

\* navigation.navigate("ScanBottle", {mode: "verification", initialImageUri,
\* estimatedVolume: estimatedVolume || 0}): ScanBottle is the focused route,
\* so its params are replaced and the mounted component keeps its state
NavigateToVerification ==
    /\ routeMode' = "verification"
    /\ routeImage' = imageUri
    /\ routeVolume' = Some(OrElse(estimatedVolume, 0))
    /\ alerts' = { }
    /\ UNCHANGED << completions, isProcessing, fins >>

\* handleConfirm, pressed on the confirm button
HandleConfirm ==
    /\ ConfirmButton
    /\ IF ConfirmRejects(IsVerification, estimatedVolume)
       THEN /\ alerts' = { "Error: no volume" }
            /\ UNCHANGED << routeMode, routeVolume, routeImage, completions,
                            isProcessing, fins >>
       ELSE IF IsVerification
            THEN StartComplete("confirm")
            ELSE NavigateToVerification
    /\ UNCHANGED << rev, screen, session, imageUri, estimatedVolume,
                    bottleType, detectionConfidence, captures,
                    procs, entries, pet >>
    /\ settled' = Null
    /\ UNCHANGED << callVars, now, modelVars >>

\* handleSkipVerification with "Skip" chosen in its dialog:
\* `if (estimatedVolume) completeHydrationEntry()`
HandleSkipVerification ==
    /\ SkipButton
    /\ IF Truthy(estimatedVolume)
       THEN StartComplete("skip")
       ELSE /\ alerts' = { }
            /\ UNCHANGED << routeMode, routeVolume, routeImage, completions,
                            isProcessing, fins >>
    /\ UNCHANGED << rev, screen, session, imageUri, estimatedVolume,
                    bottleType, detectionConfidence, captures,
                    procs, entries, pet >>
    /\ settled' = Null
    /\ UNCHANGED << callVars, now, modelVars >>

\* whether invocation f still belongs to the mounted screen (a state setter or
\* a navigation call of an unmounted screen does nothing)
Mounted(f) == screen = "ScanBottle" /\ f.session = session

\* The screen is removed from the stack and `to` is shown: the component's
\* state is gone with it
Leave(to) ==
    /\ screen' = to
    /\ routeMode' = "initial"
    /\ routeVolume' = Null
    /\ routeImage' = Null
    /\ imageUri' = Null
    /\ isProcessing' = FALSE
    /\ estimatedVolume' = Null
    /\ bottleType' = Null
    /\ detectionConfidence' = Null
    /\ procs' = { }

\* The screen stays; isProcessing is set to `processing`
Stay(processing) ==
    /\ isProcessing' = processing
    /\ UNCHANGED << screen, screenState >>

\* databaseService.getUserHydrationToday
RECURSIVE SumAmounts(_)
SumAmounts(es) ==
    IF es = << >> THEN 0 ELSE es[1].amount + SumAmounts(Tail(es))

GetUserHydrationToday == SumAmounts(entries)

\* ---- calculateDailyWaterGoal (both goal strategies) ----

Urine == 1500
Faeces == 150
LowActivitySweat == 100
MinGoal == 1500
MaxGoal == 5000
MlPerKg == 35

\* Amounts of water are kept in 1/1600 ml: the basal metabolic rate is a
\* whole number of quarters of a kcal (6.25 * height), the activity
\* multipliers are whole fortieths and the sweat is a tenth of their product.
UnitsPerMl == 4 * 40 * 10

ActivityLevels == { "low", "moderate", "high", "very_high" }

\* activityMultipliers of waterGoalCalculator.ts (1.2, 1.55, 1.725, 1.9), in
\* fortieths
ActivityMultipliers(activityLevel) ==
    CASE activityLevel = "low" -> 48
      [] activityLevel = "moderate" -> 62
      [] activityLevel = "high" -> 69
      [] activityLevel = "very_high" -> 76

\* the weights (kg) and heights (cm) the goal is computed for
Weights == { 20, 43, 70, 143, 300 }

Heights == { 50, 170, 250 }

\* skinEvap = 400 * 0.007184 * Math.pow(weight, 0.425) * Math.pow(height, 0.725)
\* in 1/1600 ml, the double-precision value rounded to the nearest unit, for
\* heights 49, 50, 170, 250 and 251
SkinEvapByHeight(weight) ==
    CASE weight = 19 -> << 270028, 274012, 665414, 880082, 882633 >>
      [] weight = 20 -> << 275979, 280051, 680079, 899478, 902085 >>
      [] weight = 43 -> << 382087, 387725, 941555, 1245308, 1248918 >>
      [] weight = 70 -> << 470008, 476943, 1158213, 1531861, 1536301 >>
      [] weight = 143 -> << 636731, 646126, 1569060, 2075251, 2081266 >>
      [] weight = 300 -> << 872399, 885271, 2149801, 2843344, 2851585 >>
      [] weight = 301 -> << 873633, 886524, 2152844, 2847368, 2855621 >>

SkinEvap(weight, height) ==
    SkinEvapByHeight(weight)[CASE height = 49 -> 1 [] height = 50 -> 2
                               [] height = 170 -> 3 [] height = 250 -> 4
                               [] height = 251 -> 5]

\* basalMetabolicRate, in quarters of a kcal
BasalMetabolicRate(stats) ==
    40 * stats.weight + 25 * stats.height - 20 * stats.age
        + (IF stats.sex = "male" THEN 20 ELSE 0 - 644)

\* sweat in 1/1600 ml: a tenth of the total daily energy expenditure above
\* the lowest multiplier, else 100 ml
Sweat(stats) ==
    IF ActivityMultipliers(stats.activityLevel) > 48
    THEN BasalMetabolicRate(stats) * ActivityMultipliers(stats.activityLevel)
    ELSE LowActivitySweat * UnitsPerMl

\* Math.round of an amount in 1/1600 ml: the nearest whole ml, halves up
MathRoundUnits(amount) == (amount + UnitsPerMl \div 2) \div UnitsPerMl

\* `Math.max(1500, Math.min(5000, dailyGoal))`
ClampGoal(dailyGoal) == Max(MinGoal, Min(MaxGoal, dailyGoal))

\* calculateDailyWaterGoal of waterGoalCalculator.ts: the respiratory loss
\* and the metabolic gain are the same product and leave the difference
\* to urine, faeces, skin and sweat
CalculateDailyWaterGoal(stats) ==
    LET totalLossLessGain ==
            (Urine + Faeces) * UnitsPerMl
                + SkinEvap(stats.weight, stats.height) + Sweat(stats)
        dailyGoal == MathRoundUnits(totalLossLessGain)
    IN  ClampGoal(dailyGoal)

\* Variant of WeightActivityMultipliers that ignores the activity level
WeightActivityMultipliersFlat(activityLevel) == 10

\* activityMultipliers of the weight-based calculator (1.0, 1.2, 1.5, 1.8),
\* in tenths
WeightActivityMultipliers(activityLevel) ==
    CASE activityLevel = "low" -> 10
      [] activityLevel = "moderate" -> 12
      [] activityLevel = "high" -> 15
      [] activityLevel = "very_high" -> 18

\* Variant of CalculateDailyWaterGoalByWeight without the bounds
CalculateDailyWaterGoalByWeightUnbounded(stats) ==
    (stats.weight * MlPerKg * WeightActivityMultipliers(stats.activityLevel) + 5) \div 10

\* calculateDailyWaterGoal of the weight-based calculator:
\* Math.round(weight * 35 * multiplier), bounded
CalculateDailyWaterGoalByWeight(stats) ==
    LET baseWater == stats.weight * MlPerKg
        dailyGoal == (baseWater * WeightActivityMultipliers(stats.activityLevel) + 5) \div 10
    IN  ClampGoal(dailyGoal)

\* ---- the forms that take the biometrics ----

\* what is typed into the height, weight and age fields
HeightTexts == { "", "abc", "49", "50", "170", "250", "251" }

WeightTexts == { "", "70kg", "19", "20", "70", "300", "301" }

AgeTexts == { "", "abc", "0", "1", "30", "120", "121" }

\* the value of a text of decimal digits
DecimalValue(text) ==
    CASE text = "0" -> 0 [] text = "1" -> 1 [] text = "19" -> 19
      [] text = "20" -> 20 [] text = "30" -> 30 [] text = "49" -> 49
      [] text = "50" -> 50 [] text = "70" -> 70 [] text = "120" -> 120
      [] text = "121" -> 121 [] text = "170" -> 170 [] text = "250" -> 250
      [] text = "251" -> 251 [] text = "300" -> 300 [] text = "301" -> 301

\* parseFloat: the number a text starts with, NaN (Null) when it starts
\* with none
ParseFloat(text) ==
    IF text \in { "", "abc" } THEN Null
    ELSE IF text = "70kg" THEN Some(70)
    ELSE Some(DecimalValue(text))

\* Number(text): 0 for the empty text, NaN (Null) unless the whole text is a
\* number
NumberOf(text) ==
    IF text = "" THEN Some(0)
    ELSE IF text \in { "abc", "70kg" } THEN Null
    ELSE Some(DecimalValue(text))

\* `!heightNum`: NaN and 0 are falsy
FalsyNumber(num) == num = Null \/ num = Some(0)

\* the checks of handleCalculateGoal that end in an alert and a return
OnboardingRejects(heightNum, weightNum, ageNum) ==
    \/ FalsyNumber(heightNum) \/ FalsyNumber(weightNum) \/ FalsyNumber(ageNum)
    \/ heightNum[1] < 50 \/ heightNum[1] > 250
    \/ weightNum[1] < 20 \/ weightNum[1] > 300
    \/ ageNum[1] < 1 \/ ageNum[1] > 120

\* OnboardingScreen's handleCalculateGoal: the stats and the goal it sets
\* (Null when a check rejects). Its stats carry no sex: the calculator is
\* the weight-based one.
HandleCalculateGoal(height, weight, age, activityLevel) ==
    LET heightNum == ParseFloat(height)
        weightNum == ParseFloat(weight)
        ageNum == ParseFloat(age)
    IN  IF OnboardingRejects(heightNum, weightNum, ageNum) THEN Null
        ELSE LET stats == [ height |-> heightNum[1], weight |-> weightNum[1],
                            age |-> ageNum[1], activityLevel |-> activityLevel ]
             IN  Some([ stats |-> stats,
                        dailyWaterGoal |-> CalculateDailyWaterGoalByWeight(stats) ])

\* signup's checks of the numbers: `!age || isNaN(Number(age))` and the same
\* for height and weight
SignupRejects(height, weight, age) ==
    \/ age = "" \/ NumberOf(age) = Null
    \/ height = "" \/ NumberOf(height) = Null
    \/ weight = "" \/ NumberOf(weight) = Null

\* SignUpScreen's signup: the stats document it stores (Null when a check
\* rejects or the account is not created)
Signup(sex, height, weight, age, activityLevel, created) ==
    IF SignupRejects(height, weight, age) \/ ~created THEN Null
    ELSE LET stats == [ sex |-> sex, age |-> NumberOf(age)[1],
                        height |-> NumberOf(height)[1],
                        weight |-> NumberOf(weight)[1],
                        activityLevel |-> activityLevel ]
         IN  Some([ stats |-> stats,
                    dailyWaterGoal |-> CalculateDailyWaterGoal(stats) ])

\* Variant of ShouldFlagOverdrinking that flags from the threshold on
ShouldFlagOverdrinkingFromThreshold(currentIntake, dailyGoal) ==
    2 * currentIntake >= 3 * dailyGoal

\* shouldFlagOverdrinking: `currentIntake > dailyGoal * 1.5`, both sides
\* doubled (the product is exact for every integer goal)
ShouldFlagOverdrinking(currentIntake, dailyGoal) ==
    2 * currentIntake > 3 * dailyGoal

\* `totalAfter > profile.stats.dailyWaterGoal * 1.5`
ShouldFlag(totalAfter, dailyGoal) == 2 * totalAfter > 3 * dailyGoal

\* completeHydrationEntry's catch block (RevEstimate: setIsProcessing(false),
\* navigate("Home"), error alert) or catch + finally (RevConsensus: error
\* alert, setIsProcessing(false), the screen stays)
CompleteFails(f) ==
    /\ fins' = fins \ {f}
    /\ alerts' = { "Error: failed to log" }
    /\ IF Mounted(f)
       THEN IF rev = RevEstimate THEN Leave("Home") ELSE Stay(FALSE)
       ELSE Stay(isProcessing)

\* completeHydrationEntry's successful end: setIsProcessing(false), back to
\* Home (RevEstimate: navigate("Home"); RevConsensus: goBack() from the
\* success dialog), success alert
CompleteSucceeds(f) ==
    /\ fins' = fins \ {f}
    /\ alerts' = { "Success" }
    /\ IF Mounted(f) THEN Leave("Home") ELSE Stay(isProcessing)

\* `!profile?.stats`: alert, navigation.replace("Onboarding"), return (which
\* RevConsensus follows with its finally block)
CompleteWithoutProfile(f) ==
    /\ fins' = fins \ {f}
    /\ alerts' = { "Error: profile not found" }
    /\ IF Mounted(f) THEN Leave("Onboarding") ELSE Stay(isProcessing)

\* Variant of RejectsVolume without the check
RejectsVolumeNever(volume) == FALSE

\* RevEstimate: `if (volumeToLog === 0)`; RevConsensus has no such check
RejectsVolume(volume) == rev = RevEstimate /\ volume = 0

\* `volumeToLog === 0`: alert, return; isProcessing stays set
CompleteWithoutVolume(f) ==
    /\ RejectsVolume(f.volume)
    /\ fins' = fins \ {f}
    /\ alerts' = { "Error: no water volume" }
    /\ Stay(isProcessing)

\* databaseService.addHydrationEntry, after the overdrinking check. An
\* entry's session and by are history: the session and the handler that
\* wrote it.
AddHydrationEntry(f) ==
    /\ ~RejectsVolume(f.volume)
    /\ entries' = Append(entries, [ session |-> f.session, by |-> f.by,
                                    amount |-> f.volume,
                                    verified |-> VerifiedFlag(f.by) ])
    /\ fins' = (fins \ {f}) \cup { [f EXCEPT !.pc = "getPet"] }
    /\ alerts' = IF ShouldFlag(GetUserHydrationToday + f.volume, DailyWaterGoal)
                 THEN { "Slow Down" } ELSE { }
    /\ Stay(isProcessing)

\* completeHydrationEntry from getCurrentUser to addHydrationEntry
CompleteWrite ==
    \E f \in fins :
        /\ f.pc = "write"
        /\ \/ CompleteFails(f) /\ UNCHANGED entries
           \/ CompleteWithoutProfile(f) /\ UNCHANGED entries
           \/ CompleteWithoutVolume(f) /\ UNCHANGED entries
           \/ AddHydrationEntry(f)
        /\ UNCHANGED << rev, session, captures, completions, pet >>
        /\ settled' = Null
        /\ UNCHANGED << callVars, now, modelVars >>

\* completeHydrationEntry: databaseService.getPet
CompleteGetPet ==
    \E f \in fins :
        /\ f.pc = "getPet"
        /\ \/ CompleteFails(f)
           \/ pet = Null /\ CompleteSucceeds(f)
           \/ /\ pet # Null
              /\ fins' = (fins \ {f}) \cup
                           { [f EXCEPT !.pc = "updatePet", !.petRead = pet] }
              /\ alerts' = { }
              /\ Stay(isProcessing)
        /\ UNCHANGED << rev, session, captures, completions, entries, pet >>
        /\ settled' = Null
        /\ UNCHANGED << callVars, now, modelVars >>

\* completeHydrationEntry: updatePetAfterHydration and databaseService.updatePet
CompleteUpdatePet ==
    \E f \in fins :
        /\ f.pc = "updatePet"
        /\ \/ CompleteFails(f) /\ UNCHANGED pet
           \/ /\ pet' = Some(UpdatePet(pet[1],
                                       UpdatePetAfterHydration(f.petRead[1], f.volume)))
              /\ CompleteSucceeds(f)
        /\ UNCHANGED << rev, session, captures, completions, entries >>
        /\ settled' = Null
        /\ UNCHANGED << callVars, now, modelVars >>

----------------------------------------------------------------------------
(* Navigation into the screen *)

\* ScanBottleScreen mounting with the given route params: the useState
\* initial values
Mount(mode, volume, image) ==
    /\ screen' = "ScanBottle"
    /\ session' = session + 1
    /\ routeMode' = mode
    /\ routeVolume' = volume
    /\ routeImage' = image
    /\ imageUri' = image
    /\ isProcessing' = FALSE
    /\ estimatedVolume' = OrNull(volume)
    /\ bottleType' = Null
    /\ detectionConfidence' = Null
    /\ procs' = { }
    /\ alerts' = { }

\* HomeScreen's scan button: navigation.navigate("ScanBottle", {mode: "initial"})
OpenScan ==
    /\ screen = "Home"
    /\ session < MaxSessions
    /\ Mount("initial", Null, Null)
    /\ UNCHANGED << rev, captures, completions, fins, entries, pet >>
    /\ settled' = Null
    /\ UNCHANGED << callVars, now, modelVars >>

\* The route's params allow mode "verification" with estimatedVolume absent
\* or 0 (AppStackParamList: every param of ScanBottle is optional): the
\* screen opened on such a route
OpenVerificationWithoutEstimate ==
    /\ screen = "Home"
    /\ session < MaxSessions
    /\ \E volume \in { Null, Some(0) } : Mount("verification", volume, Null)
    /\ UNCHANGED << rev, captures, completions, fins, entries, pet >>
    /\ settled' = Null
    /\ UNCHANGED << callVars, now, modelVars >>

----------------------------------------------------------------------------
(* Specifications *)

InitCommon ==
    /\ screen = "Home"
    /\ session = 0
    /\ routeMode = "initial"
    /\ routeVolume = Null
    /\ routeImage = Null
    /\ imageUri = Null
    /\ isProcessing = FALSE
    /\ estimatedVolume = Null
    /\ bottleType = Null
    /\ detectionConfidence = Null
    /\ captures = 0
    /\ procs = { }
    /\ completions = 0
    /\ fins = { }
    /\ entries = << >>
    /\ pet \in { Null, Some(InitialPet) }
    /\ alerts = { }
    /\ settled = Null
    /\ call = NoCall
    /\ result = Null
    /\ now = 0
    /\ model = "null"
    /\ isModelLoading = FALSE
    /\ modelLoadError = Null
    /\ callers = [ c \in 1..MaxCallers |-> "idle" ]

Init == rev = RevEstimate /\ InitCommon

InitConsensus == rev = RevConsensus /\ InitCommon

Next ==
    \/ OpenScan
    \/ OpenVerificationWithoutEstimate
    \/ HandleTakePicture
    \/ HandlePickImage
    \/ ProcessImageSettles
    \/ Retake
    \/ HandleConfirm
    \/ CompleteWrite
    \/ CompleteGetPet
    \/ CompleteUpdatePet

NextConsensus == Next \/ HandleSkipVerification

\* the screen of src/unnamed/part_008
Spec == Init /\ [][Next]_vars

\* the capture phase with processImage's two awaits apart
NextProcessing ==
    \/ OpenScan
    \/ HandleTakePicture
    \/ HandlePickImage
    \/ Retake
    \/ DetectionResolves
    \/ TribunalResponds

\* detectBottleAndLevel runs on the device and always returns; the remote
\* endpoint is outside the program and owes no answer
SpecProcessing ==
    Init /\ [][NextProcessing]_vars /\ WF_vars(DetectionResolves)

\* the screen of src/app/context/AuthContext.tsx
SpecConsensus == InitConsensus /\ [][NextConsensus]_vars

\* the callers of loadMLModel and unloadMLModel, in any interleaving
NextLifecycle ==
    \/ \E c \in 1..MaxCallers : LoadMLModel(c)
    \/ \E c \in 1..MaxCallers : LoadSettles(c)
    \/ \E c \in 1..MaxCallers : WaiterWakes(c)
    \/ UnloadMLModel

SpecLifecycle == Init /\ [][NextLifecycle]_vars

\* the screen of src/unnamed/part_008 with every request of
\* completeHydrationEntry to the database resolving or rejecting in the end
SpecCompleting ==
    Spec /\ WF_vars(CompleteWrite) /\ WF_vars(CompleteGetPet)
         /\ WF_vars(CompleteUpdatePet)

----------------------------------------------------------------------------
(* Functions called on their own *)

\* Each behaviour makes one call: a call depends on nothing an earlier call
\* left behind
NoCallYet == call = NoCall

\* detectBottleAndLevel(imageUri, isVerification)
CallDetectBottleAndLevel ==
    /\ NoCallYet
    /\ \E m \in ModelStates, isVerification \in BOOLEAN, fault \in BOOLEAN :
         \E inference \in InferenceOutcomes(m),
            simulated \in DetectWaterLevelSimulated(isVerification) :
           /\ call' = [ fn |-> "detectBottleAndLevel", m |-> m,
                        isVerification |-> isVerification,
                        inference |-> inference, simulated |-> simulated,
                        fault |-> fault ]
           /\ result' = DetectBottleAndLevelResult(m, inference, simulated,
                                                   fault, isVerification)
    /\ UNCHANGED << scanVars, now, modelVars >>

\* the experiences the pet functions are called with
Experiences == 0..MaxCallExperience \cup { 4000 }

\* calculatePetType(experience)
CallCalculatePetType ==
    /\ NoCallYet
    /\ \E experience \in Experiences :
         /\ call' = [ fn |-> "calculatePetType", experience |-> experience ]
         /\ result' = CalculatePetType(experience)
    /\ UNCHANGED << scanVars, now, modelVars >>

\* calculatePetLevel(experience)
CallCalculatePetLevel ==
    /\ NoCallYet
    /\ \E experience \in Experiences :
         /\ call' = [ fn |-> "calculatePetLevel", experience |-> experience ]
         /\ result' = CalculatePetLevel(experience)
    /\ UNCHANGED << scanVars, now, modelVars >>

\* the stored healths calculatePetHealth is called with
Healths == { 0, 1, 2, 50, 100 }

\* calculatePetHealth(lastFed, currentHealth) at time `time`; lastFed may lie
\* in the future (the clocks of client and server differ)
CallCalculatePetHealth ==
    /\ NoCallYet
    /\ \E lastFed \in 0..MaxTime, time \in 0..MaxTime, currentHealth \in Healths :
         /\ call' = [ fn |-> "calculatePetHealth", lastFed |-> lastFed,
                      currentHealth |-> currentHealth, time |-> time ]
         /\ result' = CalculatePetHealth(lastFed, currentHealth, time)
    /\ UNCHANGED << scanVars, now, modelVars >>

\* daily goals and intakes (ml) around one and a half times each goal
Goals == { 1500, 2500, 5000 }

Intakes == { 0, 2240, 2250, 2260, 3740, 3750, 3760, 7490, 7500, 7510 }

\* amounts logged by a scan (ml)
LoggedVolumes == { 10, 250, 500 }

\* shouldFlagOverdrinking(currentIntake, dailyGoal)
CallShouldFlagOverdrinking ==
    /\ NoCallYet
    /\ \E currentIntake \in Intakes, dailyGoal \in Goals :
         /\ call' = [ fn |-> "shouldFlagOverdrinking",
                      currentIntake |-> currentIntake, dailyGoal |-> dailyGoal ]
         /\ result' = ShouldFlagOverdrinking(currentIntake, dailyGoal)
    /\ UNCHANGED << scanVars, now, modelVars >>

\* completeHydrationEntry's overdrinking check, for a day's intake, an
\* amount to log and a profile's goal
CallOverdrinkingCheck ==
    /\ NoCallYet
    /\ \E todayIntake \in Intakes, volumeToLog \in LoggedVolumes, dailyGoal \in Goals :
         /\ call' = [ fn |-> "overdrinkingCheck", todayIntake |-> todayIntake,
                      volumeToLog |-> volumeToLog, dailyGoal |-> dailyGoal ]
         /\ result' = ShouldFlag(todayIntake + volumeToLog, dailyGoal)
    /\ UNCHANGED << scanVars, now, modelVars >>

\* ages and sexes of the biometrics; the sign-up form takes any text for sex
Ages == { 1, 30, 120 }

Sexes == { "male", "female", "other" }

UserStats == [ height : Heights, weight : Weights, age : Ages, sex : Sexes,
               activityLevel : ActivityLevels ]

\* calculateDailyWaterGoal(stats) of waterGoalCalculator.ts
CallCalculateDailyWaterGoal ==
    /\ NoCallYet
    /\ \E stats \in UserStats :
         /\ call' = [ fn |-> "calculateDailyWaterGoal", stats |-> stats ]
         /\ result' = CalculateDailyWaterGoal(stats)
    /\ UNCHANGED << scanVars, now, modelVars >>

\* calculateDailyWaterGoal(stats) of the weight-based calculator
CallCalculateDailyWaterGoalByWeight ==
    /\ NoCallYet
    /\ \E stats \in UserStats :
         /\ call' = [ fn |-> "calculateDailyWaterGoalByWeight", stats |-> stats ]
         /\ result' = CalculateDailyWaterGoalByWeight(stats)
    /\ UNCHANGED << scanVars, now, modelVars >>

\* the Calculate button of onboarding
CallHandleCalculateGoal ==
    /\ NoCallYet
    /\ \E height \in HeightTexts, weight \in WeightTexts, age \in AgeTexts,
          activityLevel \in ActivityLevels :
         /\ call' = [ fn |-> "handleCalculateGoal", height |-> height,
                      weight |-> weight, age |-> age,
                      activityLevel |-> activityLevel ]
         /\ result' = HandleCalculateGoal(height, weight, age, activityLevel)
    /\ UNCHANGED << scanVars, now, modelVars >>

\* the Sign Up button
CallSignup ==
    /\ NoCallYet
    /\ \E sex \in Sexes, height \in HeightTexts, weight \in WeightTexts,
          age \in AgeTexts, activityLevel \in ActivityLevels, created \in BOOLEAN :
         /\ call' = [ fn |-> "signup", sex |-> sex, height |-> height,
                      weight |-> weight, age |-> age,
                      activityLevel |-> activityLevel, created |-> created ]
         /\ result' = Signup(sex, height, weight, age, activityLevel, created)
    /\ UNCHANGED << scanVars, now, modelVars >>

\* callOpenRouterAPI on a response: a failed request or status, or a body
\* with some content
CallCallOpenRouterAPI ==
    /\ NoCallYet
    /\ \/ /\ call' = [ fn |-> "callOpenRouterAPI", ok |-> FALSE, content |-> << >> ]
          /\ result' = Thrown
       \/ \E content \in { << >>, << Prose >> } \cup
                           UNION { ContentsOf(object) : object \in JsonObjects } :
             /\ call' = [ fn |-> "callOpenRouterAPI", ok |-> TRUE, content |-> content ]
             /\ result' = ParseEstimate(content)
    /\ UNCHANGED << scanVars, now, modelVars >>

\* ---- the leaderboard's sort and ranks ----

MaxLeaderboard == 3

\* the day's totals (ml) of the users on a leaderboard
TotalHydrations == { 0, 500, 1000 }

\* the items pushed before sorting, rank 0; a userId is the place of the user
\* in the snapshot
LeaderboardItems(totals) ==
    [ i \in 1..Len(totals) |->
        [ userId |-> i, totalHydration |-> totals[i], rank |-> 0 ] ]

\* the comparator `(a, b) => b.totalHydration - a.totalHydration`
CompareTotalHydration(a, b) == b.totalHydration - a.totalHydration

\* Variant of InsertSorted that puts an item before the items it ties with
InsertSortedBeforeTies(sorted, item) ==
    LET before == SelectSeq(sorted, LAMBDA x : CompareTotalHydration(x, item) < 0)
        after == SelectSeq(sorted, LAMBDA x : CompareTotalHydration(x, item) >= 0)
    IN  before \o << item >> \o after

\* one item placed into a sorted list, behind every item the comparator does
\* not put after it (Array.prototype.sort is stable)
InsertSorted(sorted, item) ==
    LET before == SelectSeq(sorted, LAMBDA x : CompareTotalHydration(x, item) <= 0)
        after == SelectSeq(sorted, LAMBDA x : CompareTotalHydration(x, item) > 0)
    IN  before \o << item >> \o after

\* `items.sort((a, b) => b.totalHydration - a.totalHydration)`
RECURSIVE SortByTotalHydration(_)
SortByTotalHydration(items) ==
    IF items = << >> THEN << >>
    ELSE InsertSorted(SortByTotalHydration(SubSeq(items, 1, Len(items) - 1)),
                      items[Len(items)])

\* `items.forEach((item, index) => { item.rank = index + 1 })`
AssignRanks(items) ==
    [ index \in 1..Len(items) |-> [items[index] EXCEPT !.rank = index] ]

\* the sort and the ranks of subscribeToLeaderboard and loadLeaderboard
RankLeaderboard(items) == AssignRanks(SortByTotalHydration(items))

\* a ranking pass over the items of a snapshot
CallRankLeaderboard ==
    /\ NoCallYet
    /\ \E n \in 0..MaxLeaderboard :
         \E totals \in [ 1..n -> TotalHydrations ] :
            /\ call' = [ fn |-> "rankLeaderboard", items |-> LeaderboardItems(totals) ]
            /\ result' = RankLeaderboard(LeaderboardItems(totals))
    /\ UNCHANGED << scanVars, now, modelVars >>

InitCalls == rev = RevEstimate /\ InitCommon

NextCalls ==
    \/ CallDetectBottleAndLevel
    \/ CallCalculatePetType
    \/ CallCalculatePetLevel
    \/ CallCalculatePetHealth
    \/ CallShouldFlagOverdrinking
    \/ CallOverdrinkingCheck
    \/ CallCalculateDailyWaterGoal
    \/ CallCalculateDailyWaterGoalByWeight
    \/ CallRankLeaderboard
    \/ CallHandleCalculateGoal
    \/ CallSignup
    \/ CallCallOpenRouterAPI

\* the functions of waterLevelClassifier, petEvolution and
\* waterGoalCalculator, each called on its own
SpecCalls == InitCalls /\ [][NextCalls]_vars

----------------------------------------------------------------------------
(* The pet document over time *)

\* the amounts fed
FeedAmounts == { 0, 250, 1000, 8000 }

\* OnboardingScreen: databaseService.initializePet (setDoc)
InitializePet ==
    /\ pet = Null
    /\ pet' = Some([ InitialPet EXCEPT !.lastFed = now ])
    /\ call' = [ fn |-> "initializePet", at |-> now ]
    /\ result' = Null
    /\ UNCHANGED << rev, screen, session, routeMode, routeVolume, routeImage,
                    imageUri, isProcessing, estimatedVolume, bottleType,
                    detectionConfidence, captures, procs, completions, fins,
                    entries, alerts, settled, now, modelVars >>

\* completeHydrationEntry's pet update, with nothing failing: getPet,
\* `if (pet)`, updatePetAfterHydration, updatePet
FeedPet ==
    /\ pet # Null
    /\ completions < MaxFeeds
    /\ completions' = completions + 1
    /\ \E amount \in FeedAmounts :
         /\ pet' = Some(UpdatePet(pet[1], UpdatePetAfterHydration(pet[1], amount)))
         /\ call' = [ fn |-> "feed", at |-> now, amount |-> amount ]
    /\ result' = Null
    /\ UNCHANGED << rev, screen, session, routeMode, routeVolume, routeImage,
                    imageUri, isProcessing, estimatedVolume, bottleType,
                    detectionConfidence, captures, procs, fins, entries,
                    alerts, settled, now, modelVars >>

\* time passes
Tick ==
    /\ now < MaxTime
    /\ now' = now + 1
    /\ UNCHANGED << scanVars, callVars, modelVars >>

\* the snapshot of the stored document a view works on
Snapshot(view) ==
    [ fn |-> view, at |-> now, health |-> pet[1].health,
      lastFed |-> pet[1].lastFed ]

\* the Pet component: `Health: ${pet.health}%`, of the document HomeScreen
\* subscribes to
ShowPet ==
    /\ pet # Null
    /\ call' = Snapshot("Pet")
    /\ result' = pet[1].health
    /\ UNCHANGED << scanVars, now, modelVars >>

\* FriendPetScreen: `${pet.health}%`
ShowFriendPet ==
    /\ pet # Null
    /\ call' = Snapshot("FriendPetScreen")
    /\ result' = pet[1].health
    /\ UNCHANGED << scanVars, now, modelVars >>

\* LeaderboardScreen: petHealth: pet?.health || 0
LoadLeaderboard ==
    /\ pet # Null
    /\ call' = Snapshot("LeaderboardScreen")
    /\ result' = OrElse(Some(pet[1].health), 0)
    /\ UNCHANGED << scanVars, now, modelVars >>

InitPet == rev = RevEstimate /\ InitCommon /\ pet = Null

NextPet ==
    \/ InitializePet
    \/ FeedPet
    \/ Tick
    \/ ShowPet
    \/ ShowFriendPet
    \/ LoadLeaderboard

\* the pets/{uid} document: initialized, fed, read by the views
SpecPet == InitPet /\ [][NextPet]_vars

----------------------------------------------------------------------------
(* Properties *)

\* the entries the session on screen has written
SessionEntries == { i \in DOMAIN entries : entries[i].session = session }

\* the dialogs that report an error of completeHydrationEntry
ErrorAlerts ==
    { "Error: no water volume", "Error: failed to log", "Error: profile not found" }

\* C1: for every capture where both the local detection and the remote
\* estimate returned, the volume put on display (and carried on) is the
\* remote estimate's waterVolume exactly when the remote confidence is
\* strictly above 0.5; otherwise it is the local detection's estimatedVolume.
C1_FusionPrecedence ==
    (settled # Null /\ settled[1].tribunal # Null) =>
        LET remote == settled[1].tribunal[1]
            local == settled[1].detection
        IN  estimatedVolume =
              Some(IF remote.confidence > ConfidenceThreshold
                   THEN remote.waterVolume
                   ELSE local.estimatedVolume)

\* C1 witness: a capture has settled on the remote volume (330.5 ml rounded,
\* a volume no local detection gives) and its confidence
C1_RemoteVolumeSelected ==
    /\ settled # Null
    /\ settled[1].tribunal # Null
    /\ settled[1].tribunal[1].confidence > ConfidenceThreshold
    /\ settled[1].detection.estimatedVolume # settled[1].tribunal[1].waterVolume
    /\ estimatedVolume = Some(331)

\* C2: the entry a verification session writes has the amount the route
\* carried into verification (priorEstimate), whatever the verification
\* capture was estimated at and however many retakes there were.
C2_LogsPriorEstimate ==
    (screen = "ScanBottle" /\ IsVerification) =>
        \A i \in SessionEntries : routeVolume = Some(entries[i].amount)

\* C2 witness: the entry is written while a retaken verification capture
\* shows another, non-zero estimate
C2_LoggedBesideOtherEstimate ==
    /\ screen = "ScanBottle"
    /\ IsVerification
    /\ SessionEntries # { }
    /\ imageUri # Null
    /\ imageUri # routeImage
    /\ Truthy(estimatedVolume)
    /\ estimatedVolume # routeVolume

\* C3: in verification, entered with an estimate, once a verification capture
\* has been estimated and nothing is in flight, the confirm button is
\* available whatever the estimate is, 0 included.
C3_ConfirmAvailableInVerification ==
    ( /\ screen = "ScanBottle"
      /\ IsVerification
      /\ Truthy(routeVolume)
      /\ routeImage # Null
      /\ imageUri # Null
      /\ imageUri # routeImage
      /\ detectionConfidence # Null
      /\ procs = { }
      /\ fins = { }
      /\ ~isProcessing )
    => ConfirmButton

\* C4: the mounted screen goes from initial to verification mode only with
\* an estimate on display that is greater than 0.
C4_VerificationNeedsPositiveEstimate ==
    [][ (screen = "ScanBottle" /\ ~IsVerification /\ IsVerification') =>
            (estimatedVolume # Null /\ estimatedVolume[1] > 0) ]_vars

\* C5: an entry written by skipping has verified = false; verified = true is
\* written only by confirming the verification.
C5_SkipWritesUnverified ==
    \A i \in DOMAIN entries :
        entries[i].verified <=> entries[i].by = "confirm"

\* C6: a session writes at most one entry, retries after a failure included.
C6_AtMostOneEntryPerSession ==
    \A s \in 1..MaxSessions :
        Cardinality({ i \in DOMAIN entries : entries[i].session = s }) <= 1

\* C7: when completeHydrationEntry runs in verification with the route's
\* estimatedVolume missing or 0, its run ends without an entry written and
\* without a pet update, and with an error dialog.
C7_MissingPriorEstimateFails ==
    [][ \A f \in fins \ fins' :
          ( /\ f.pc = "write"
            /\ Mounted(f)
            /\ IsVerification
            /\ ~Truthy(routeVolume) )
          => ( /\ entries' = entries
               /\ pet' = pet
               /\ f.nth \notin { g.nth : g \in fins' }
               /\ alerts' # { }
               /\ alerts' \subseteq ErrorAlerts ) ]_vars

\* C7 witness: the run has ended on the volume check, with a capture
\* estimated at a non-zero volume on display
C7_RejectedForMissingEstimate ==
    /\ screen = "ScanBottle"
    /\ IsVerification
    /\ ~Truthy(routeVolume)
    /\ Truthy(estimatedVolume)
    /\ alerts = { "Error: no water volume" }
    /\ entries = << >>

\* C8: every entry's amount is an integer (all volumes are, after Math.round)
\* that is not negative.
C8_AmountsNonNegative ==
    \A i \in DOMAIN entries : entries[i].amount >= 0

\* C9: a pet update never lowers the experience, and sets it to the
\* experience read plus floor(amount / 100 * 10).
C9_ExperienceNeverDecreases ==
    [][ (pet # Null /\ pet' # pet) =>
            /\ pet' # Null
            /\ pet'[1].experience >= pet[1].experience
            /\ \E f \in fins \ fins' :
                 /\ f.pc = "updatePet"
                 /\ pet'[1].experience =
                      f.petRead[1].experience +
                      ((f.volume * ExperiencePer100Ml) \div 100) ]_vars

\* C10: when a capture settles, the low-confidence dialog is raised exactly
\* when the confidence of the selected estimate is below 0.5.
C10_WarningIffSelectedLow ==
    settled # Null =>
        (("Low Confidence" \in alerts) <=>
         (detectionConfidence[1] < ConfidenceThreshold))

\* C11: when the remote estimator fails, processImage still ends without an
\* error dialog and with isProcessing reset, and the volume, confidence and
\* bottle type on display are those of the local detection.
C11_RemoteFailureFallsBack ==
    (settled # Null /\ settled[1].tribunal = Null) =>
        LET local == settled[1].detection
        IN  /\ estimatedVolume = Some(local.estimatedVolume)
            /\ detectionConfidence = Some(local.confidence)
            /\ bottleType = Some(Label(local.bottleType, 0))
            /\ alerts \subseteq { "Low Confidence" }
            /\ ~isProcessing

\* C11 witness: a retaken capture has settled on the local detection after
\* the remote call failed
C11_SettledOnLocalAfterFailure ==
    /\ settled # Null
    /\ settled[1].tribunal = Null
    /\ imageUri = Some(2)
    /\ estimatedVolume = Some(settled[1].detection.estimatedVolume)

\* C12: detectBottleAndLevel always returns a detection and never rejects,
\* with or without a model, with inference failing or not, in either mode: a
\* returning model gives the model's level, a failing or absent model the
\* simulated detection, any other failure the fixed fallback of confidence 0.3.
C12_DetectionAlwaysReturned ==
    call.fn = "detectBottleAndLevel" =>
        /\ ~result.threw
        /\ LET d == result.value[1]
               noModel == call.m = "null" \/ call.inference.threw
           IN  /\ ~noModel =>
                     /\ d.waterLevel = call.inference.value[1].waterLevel
                     /\ d.confidence = call.inference.value[1].confidence
               /\ (noModel /\ ~call.fault) =>
                     /\ d.bottleType = "SmartWater 1L"
                     /\ d.waterLevel = call.simulated.waterLevel
                     /\ d.confidence = call.simulated.confidence
                     /\ d.estimatedVolume =
                          CalculateVolumeFromLevel(d.waterLevel, SimulatedBottleVolume)
               /\ (noModel /\ call.fault) =>
                     /\ d.confidence = 30
                     /\ d.bottleType = "Unknown Bottle"
                     /\ d.estimatedVolume = (IF call.isVerification THEN 0 ELSE 500)

\* C12 witness: inference failed with a model loaded and the call returned
\* the simulated detection
C12_SimulatedAfterFailedInference ==
    /\ call.fn = "detectBottleAndLevel"
    /\ call.m = "loaded"
    /\ call.inference.threw
    /\ ~call.fault
    /\ ~result.threw
    /\ result.value[1].bottleType = "SmartWater 1L"

\* C13: in every stored pet document (initializePet, then any feeds), the
\* type is calculatePetType(experience) and the level is
\* calculatePetLevel(experience).
C13_TypeAndLevelFollowExperience ==
    pet # Null =>
        /\ pet[1].type = CalculatePetType(pet[1].experience)
        /\ pet[1].level = CalculatePetLevel(pet[1].experience)

\* C13 witness: feeds have taken the pet past a threshold of the type and to
\* the cap of the level
C13_FedPastThresholds ==
    /\ pet # Null
    /\ call.fn = "feed"
    /\ pet[1].experience > MaxExperience
    /\ pet[1].type = "fish"
    /\ pet[1].level = 100

\* C14: every feed leaves the stored health at 100 and lastFed at the time of
\* the feed, whatever they were; lastFed is changed by nothing but a feed or
\* the initialization.
C14_FeedResetsHealthAndLastFed ==
    [][ /\ (call'.fn = "feed" /\ << pet, call >>' # << pet, call >>) =>
              /\ pet'[1].health = 100
              /\ pet'[1].lastFed = now
        /\ (pet # Null /\ pet' # Null /\ pet'[1].lastFed # pet[1].lastFed) =>
              /\ call'.fn = "feed"
              /\ call'.at = now ]_vars

\* C14 witness: a feed an hour or more after the previous one has moved
\* lastFed
C14_FedLater ==
    /\ pet # Null
    /\ call.fn = "feed"
    /\ completions >= 2
    /\ call.at >= TicksPerHour
    /\ pet[1].lastFed = call.at
    /\ pet[1].health = 100

\* the stages in their order, and the threshold of each
Stages == << "seed", "sprout", "plant", "flower", "droplet", "fish" >>
Thresholds == << 0, 100, 300, 600, 1000, 1500 >>
StageRank(type) == CHOOSE i \in 1..Len(Stages) : Stages[i] = type

\* C15: calculatePetType returns the stage with the highest threshold not
\* above the experience (thresholds inclusive: 99 seed, 100 sprout, 1500
\* fish) and is monotonic non-decreasing in the experience.
C15_TypeByInclusiveThresholds ==
    call.fn = "calculatePetType" =>
        LET e == call.experience
            i == StageRank(result)
        IN  /\ result \in { Stages[j] : j \in 1..Len(Stages) }
            /\ Thresholds[i] <= e
            /\ \A j \in 1..Len(Stages) : Thresholds[j] <= e => j <= i
            /\ \A lower \in 0..e : StageRank(CalculatePetType(lower)) <= i
            /\ e = 99 => result = "seed"
            /\ e = 100 => result = "sprout"
            /\ e = 1500 => result = "fish"

\* C15 witness: the call with an experience that is exactly a threshold
C15_CalledAtThreshold ==
    /\ call.fn = "calculatePetType"
    /\ call.experience = 1000
    /\ result = "droplet"

\* C16: calculatePetLevel(experience) is min(100, round(experience / 2000 *
\* 100)) for every experience >= 0, is monotonic non-decreasing, lies in
\* 0..100, and is 100 from experience 2000 on.
C16_LevelIsRoundedShare ==
    call.fn = "calculatePetLevel" =>
        LET e == call.experience
        IN  /\ result = Min(100, (e * 100 + 1000) \div 2000)
            /\ result \in 0..100
            /\ \A lower \in 0..e : CalculatePetLevel(lower) <= result
            /\ e >= 2000 => result = 100

\* C17: calculatePetHealth(lastFed, currentHealth) is max(0, currentHealth -
\* floor(hours since lastFed)): one point per full hour elapsed, never below
\* 0, never above currentHealth unless lastFed is in the future; the stored
\* pet is left as it is.
C17_HealthDecaysPerFullHour ==
    [][ (call'.fn = "calculatePetHealth" /\ call' # call) =>
            LET elapsed == call'.time - call'.lastFed
                health == call'.currentHealth
            IN  /\ \E hours \in (0 - MaxTime)..MaxTime :
                     /\ hours * TicksPerHour <= elapsed
                     /\ elapsed < (hours + 1) * TicksPerHour
                     /\ result' = Max(0, health - hours)
                /\ result' >= 0
                /\ elapsed >= 0 => result' <= health
                /\ pet' = pet ]_vars

\* C17 witness: two full hours after lastFed, a stored health of 1 has
\* decayed to 0 and no further
C17_DecayedToZero ==
    /\ call.fn = "calculatePetHealth"
    /\ call.currentHealth = 1
    /\ call.time - call.lastFed >= 2 * TicksPerHour
    /\ result = 0

\* C18: wherever the pet's health is shown (Pet component, friend's pet,
\* leaderboard), it is the health decayed by the full hours since lastFed,
\* not the stored one.
C18_ShownHealthIsDecayed ==
    call.fn \in { "Pet", "FriendPetScreen", "LeaderboardScreen" } =>
        result = Max(0, call.health - ((call.at - call.lastFed) \div TicksPerHour))

\* C19: shouldFlagOverdrinking(total, goal) is true exactly when the total
\* is strictly above one and a half times the goal (false at 3750 and true at
\* 3760 for a goal of 2500), and the scan flow flags by the same threshold
\* the day's intake plus the amount being logged.
C19_FlagStrictlyAboveOneAndAHalfGoals ==
    /\ call.fn = "shouldFlagOverdrinking" =>
         /\ result = (10 * call.currentIntake > 15 * call.dailyGoal)
         /\ (call.currentIntake = 3750 /\ call.dailyGoal = 2500) => result = FALSE
         /\ (call.currentIntake = 3760 /\ call.dailyGoal = 2500) => result = TRUE
    /\ call.fn = "overdrinkingCheck" =>
         result = (10 * (call.todayIntake + call.volumeToLog) > 15 * call.dailyGoal)

\* C19 witness: an intake of exactly one and a half goals is not flagged
C19_NotFlaggedAtThreshold ==
    /\ call.fn = "shouldFlagOverdrinking"
    /\ call.currentIntake = 3750
    /\ call.dailyGoal = 2500
    /\ result = FALSE

\* C20: calculateDailyWaterGoal gives the same goal for the same biometrics
\* and, under both goal strategies, a whole number of ml from 1500 to 5000 for
\* every height in 50..250, weight in 20..300, age in 1..120, any sex and any
\* activity level.
C20_GoalIsWholeWithinBounds ==
    call.fn \in { "calculateDailyWaterGoal", "calculateDailyWaterGoalByWeight" } =>
        /\ call.stats.height \in 50..250
        /\ call.stats.weight \in 20..300
        /\ call.stats.age \in 1..120
        /\ result \in 1500..5000
        /\ result = IF call.fn = "calculateDailyWaterGoal"
                    THEN CalculateDailyWaterGoal(call.stats)
                    ELSE CalculateDailyWaterGoalByWeight(call.stats)

\* C20 witness: the goals of the lightest and of the heaviest person with
\* the weight-based strategy are held at the bounds
C20_GoalHeldAtBound ==
    /\ call.fn = "calculateDailyWaterGoalByWeight"
    /\ \/ call.stats.weight = 20 /\ result = 1500
       \/ call.stats.weight = 300 /\ result = 5000

\* C21: under the weight-based goal policy the goal is round(weight * 35 * m)
\* held within 1500..5000, with m = 1.0, 1.2, 1.5, 1.8 for low, moderate,
\* high, very_high; it does not depend on height or age; for 70 kg and
\* moderate activity it is 2940.
C21_WeightBasedGoal ==
    call.fn = "calculateDailyWaterGoalByWeight" =>
        LET stats == call.stats
            tenths == CASE stats.activityLevel = "low" -> 10
                        [] stats.activityLevel = "moderate" -> 12
                        [] stats.activityLevel = "high" -> 15
                        [] stats.activityLevel = "very_high" -> 18
            exactTimesTen == stats.weight * 35 * tenths
            rounded == CHOOSE r \in 0..20000 :
                           10 * r - exactTimesTen \in (0 - 4)..5
            clamped == IF rounded < 1500 THEN 1500
                       ELSE IF rounded > 5000 THEN 5000 ELSE rounded
        IN  /\ result = clamped
            /\ \A height \in Heights, age \in Ages :
                   CalculateDailyWaterGoalByWeight(
                       [stats EXCEPT !.height = height, !.age = age]) = result
            /\ (stats.weight = 70 /\ stats.activityLevel = "moderate") =>
                   result = 2940

\* C21 witness: 70 kg with moderate activity gives 2940 ml
C21_SeventyKgModerate ==
    /\ call.fn = "calculateDailyWaterGoalByWeight"
    /\ call.stats.weight = 70
    /\ call.stats.activityLevel = "moderate"
    /\ result = 2940

\* C22: after a ranking pass the leaderboard is ordered by totalHydration
\* non-increasing, the ranks are 1..n in list order, the entries are those of
\* the input, entries with equal totals keep their input order, and ranking
\* the same input again (or the ranked list itself) gives the same ranks.
C22_RankingSortedStableDense ==
    call.fn = "rankLeaderboard" =>
        LET n == Len(call.items)
        IN  /\ Len(result) = n
            /\ \A i \in 1..n : result[i].rank = i
            /\ \A i \in 1..n : \E j \in 1..n :
                   /\ result[j].userId = call.items[i].userId
                   /\ result[j].totalHydration = call.items[i].totalHydration
            /\ \A i \in 1..n, j \in 1..n :
                   i < j =>
                       /\ result[i].totalHydration >= result[j].totalHydration
                       /\ result[i].totalHydration = result[j].totalHydration
                              => result[i].userId < result[j].userId
            /\ RankLeaderboard(call.items) = result
            /\ RankLeaderboard(result) = result

\* C22 witness: two users with equal totals ahead of a user with more; the
\* one with more is ranked first and the two keep their order
C22_TieKeepsInputOrder ==
    /\ call.fn = "rankLeaderboard"
    /\ Len(call.items) = 3
    /\ call.items[1].totalHydration = 500
    /\ call.items[2].totalHydration = 500
    /\ call.items[3].totalHydration = 1000
    /\ result[1].userId = 3 /\ result[2].userId = 1 /\ result[3].userId = 2
    /\ result[3].rank = 3

\* C23: within a scan session at most one capture is being processed at a
\* time, and an estimate for an image that has since been retaken or replaced
\* is never written into the displayed estimate.
C23_OnlyCurrentCaptureWritesEstimate ==
    [][ /\ Cardinality(procs') <= 1
        /\ settled' # Null =>
               \A p \in procs \ procs' : imageUri = Some(p.uri) ]_vars

\* C24: once the local detection has resolved, processing of a capture ends
\* with a fused estimate even if the remote call never responds: the screen
\* does not stay in the processing state waiting for the remote endpoint.
C24_ProcessingEndsWithoutRemote ==
    (call.fn = "getTribunalEstimate" /\ isProcessing)
        ~> (call = NoCall /\ ~isProcessing /\ estimatedVolume # Null)

\* the experience the stored entries are worth
RECURSIVE SumGains(_)
SumGains(es) ==
    IF es = << >> THEN 0
    ELSE ((es[1].amount * ExperiencePer100Ml) \div 100) + SumGains(Tail(es))

\* C25: the entry write and the pet write of a finalization are atomic or
\* safe to retry: once a finalization has succeeded and none is in flight,
\* also after a failure between the two writes and a retry or after two
\* interleaved finalizations, the store holds one entry per logged drink and
\* the pet's experience is the initial experience plus the gains of the
\* stored entries.
C25_EntriesAndExperienceAgree ==
    (fins = { } /\ "Success" \in alerts /\ pet # Null) =>
        /\ \A i \in DOMAIN entries, j \in DOMAIN entries :
               entries[i].session = entries[j].session => i = j
        /\ pet[1].experience = InitialPet.experience + SumGains(entries)

\* C26: biometrics outside height 50..250, weight 20..300, age 1..120 are
\* rejected before calculateDailyWaterGoal is called, in onboarding and in
\* sign-up: no goal is computed and kept from an out-of-range height, weight
\* or age.
C26_GoalOnlyFromValidBiometrics ==
    (call.fn \in { "handleCalculateGoal", "signup" } /\ result # Null) =>
        /\ result[1].stats.height \in 50..250
        /\ result[1].stats.weight \in 20..300
        /\ result[1].stats.age \in 1..120

\* the object a content carries, if it carries one
ObjectsIn(content) ==
    { content[i].object : i \in { j \in DOMAIN content : content[j].kind = "object" } }

\* C27: the remote estimator either fails or returns an estimate with
\* integer bottleVolume and waterVolume and a confidence in [0, 1]; code
\* fences are stripped before parsing, a response missing any of the three
\* fields as a number is rejected, and a confidence out of range is clamped
\* to the nearest bound.
C27_EstimateWellFormedOrRejected ==
    call.fn = "callOpenRouterAPI" =>
        /\ ~result.threw =>
               /\ result.value[1].bottleVolume.finite
               /\ result.value[1].waterVolume.finite
               /\ result.value[1].confidence \in 0..100
        /\ \A object \in ObjectsIn(call.content) :
               /\ (\E field \in { object.bottleVolume, object.waterVolume,
                                  object.confidence } : field.type # "number")
                      => result.threw
               /\ ( /\ ~result.threw
                    /\ object.confidence.finite )
                      => result.value[1].confidence =
                             IF object.confidence.value > 100 THEN 100
                             ELSE IF object.confidence.value < 0 THEN 0
                             ELSE object.confidence.value
               /\ ( /\ call.content \in { << ObjectText(object) >>,
                                         << FenceJson, LineBreak, ObjectText(object),
                                            LineBreak, Fence >> }
                    /\ \A field \in { object.bottleVolume, object.waterVolume,
                                      object.confidence } : field.type = "number" )
                      => ~result.threw

\* C28: an entry with verified = true is written only after a capture taken
\* and estimated in the verification phase of the session: once the
\* verification screen is entered, confirming starts no finalization before
\* a new photo, other than the one carried over from the initial scan, has
\* been captured.
C28_FinalizedAfterVerificationCapture ==
    [][ (completions' > completions /\ IsVerification) =>
            (imageUri # Null /\ imageUri # routeImage) ]_vars

C30_LifecycleSafeForEveryCaller ==
    [][ /\ Cardinality({ c \in 1..MaxCallers : callers'[c] = "loading" }) <= 1
        /\ (\A c \in 1..MaxCallers : callers'[c] # "loading") => ~isModelLoading'
        /\ \A c \in 1..MaxCallers : callers'[c] # "rejected"
        /\ ( /\ model = "loaded"
             /\ \E c \in 1..MaxCallers :
                    callers[c] # "resolved" /\ callers'[c] = "resolved" )
               => model' = "loaded"
        /\ (model = "null" /\ callers' = callers)
               => UNCHANGED << model, isModelLoading, modelLoadError >> ]_vars

====
